---- MODULE Spec2Model ----
(***************************************************************************)
(* The step-reduction engine of siren-nav (src/src/steps.ts): reduce and   *)
(* reduceEach thread a navigation state through a list of steps; follow    *)
(* and followEach fetch the current document through the transport and    *)
(* enumerate the states a relation leads to (findPossible).                *)
(*                                                                         *)
(* One action is one run-to-completion turn of the JavaScript event loop:  *)
(* everything a function does from one await (or promise callback) to the  *)
(* next.  The transport is the environment: a request in flight is         *)
(* answered with the server's document or fails.                           *)
(***************************************************************************)
EXTENDS Integers, Sequences, FiniteSets, TLC

----------------------------------------------------------------------------
(* Bounds of the model *)

\* longest step list handed to reduce
MaxSteps == 2
\* longest wave list handed to reduceEach
MaxWaves == 2
\* most initial states handed to reduceEach
MaxStates == 2
\* most sub-entities and most top-level links of a document
MaxEntities == 2
MaxLinks == 1
\* longest list of header steps handed to reduce
MaxConfigSteps == 3
\* most headers of a response
MaxReplyHeaders == 2

----------------------------------------------------------------------------
(* Values *)

SeqsUpTo(S, n) == UNION {[1..k -> S] : k \in 0..n}

\* the absent host of a relative reference
NoHost == ""
Hosts == {"h1", "h2"}
Paths == {"/a", "/b"}

\* a URL is absolute when it names a host, relative (an absolute-path
\* reference such as "/items/5") when it does not
AbsUrls == [host : Hosts, path : Paths]

\* the hrefs documents carry: one relative, one absolute
Hrefs == {[host |-> NoHost, path |-> "/b"], [host |-> "h2", path |-> "/a"]}

\* the URLs a navigation starts at
StartUrls == {[host |-> "h1", path |-> "/a"], [host |-> "h2", path |-> "/b"]}

\* relation arrays of links and sub-entities, and the relations steps follow
RelSets == {{"next"}, {"item", "up"}}
StepRels == {"next", "item"}

\* JavaScript's undefined (a record, so that it compares with payloads)
Undefined == [undefined |-> TRUE]

\* siren-types: Link, EmbeddedLink (rel + href), EmbeddedRepresentation
\* (rel + its own links, here at most a self link, a relative one)
Links == [rel : RelSets, href : Hrefs]
SelfLinks == [rel : {{"self"}}, href : {[host |-> NoHost, path |-> "/a"]}]
EmbeddedLinks == [rel : RelSets, href : Hrefs]
EmbeddedReps == [rel : RelSets, links : SeqsUpTo(SelfLinks, 1)]
Entities == EmbeddedLinks \cup EmbeddedReps

\* Siren documents with at most ne sub-entities and nl links
Sirens(ne, nl) == [entities : SeqsUpTo(Entities, ne), links : SeqsUpTo(Links, nl)]

\* the documents the multi-step runs are served: with nothing to follow, with
\* one match, with matches of both relations, with two matches of a relation,
\* with an embedded representation, with a representation lacking a self link
NextLink == [rel |-> {"next"}, href |-> [host |-> NoHost, path |-> "/b"]]
ItemLink == [rel |-> {"item", "up"}, href |-> [host |-> "h2", path |-> "/a"]]
NextAway == [rel |-> {"next"}, href |-> [host |-> "h2", path |-> "/a"]]
NextRep  == [rel |-> {"next"},
             links |-> <<[rel |-> {"self"}, href |-> [host |-> NoHost, path |-> "/a"]]>>]
ItemBare == [rel |-> {"item", "up"}, links |-> <<>>]
SampleDocs ==
    { [entities |-> <<>>,         links |-> <<>>],
      [entities |-> <<>>,         links |-> <<NextLink>>],
      [entities |-> <<ItemLink>>, links |-> <<NextLink>>],
      [entities |-> <<NextAway>>, links |-> <<NextLink>>],
      [entities |-> <<NextRep>>,  links |-> <<ItemLink>>],
      [entities |-> <<ItemBare>>, links |-> <<NextAway>>] }

\* request configuration without headers (AxiosRequestConfig)
BaseConfig == [timeout |-> "t"]

\* the caller's disambiguators: none, or one picking the first / the last
NoWhich == "none"
Whiches == {NoWhich, "first", "last"}

FollowSteps == [op : {"follow"}, rel : StepRels, which : Whiches]
HeaderSteps == [op : {"header"}, key : {"X-Key"}, value : {"v1"}]
SingleSteps == FollowSteps \cup HeaderSteps
FollowEachSteps == [op : {"followEach"}, rel : StepRels]
ToMultiSteps == [op : {"toMulti"}, step : [op : {"follow"}, rel : {"next"}, which : {NoWhich, "last"}]]
MultiSteps == FollowEachSteps \cup ToMultiSteps

\* the steps that set request headers, of steps.ts and of steps/build.ts
HeaderKeys == {"X-Key", "Accept"}
HeaderValues == {"v1", "v2"}
MediaTypes == {"application/json", "application/xml"}
ConfigSteps ==
    [op : {"header"}, key : HeaderKeys, value : HeaderValues]
        \cup [op : {"accept"}, ctype : MediaTypes]
        \cup [op : {"contentType"}, ctype : {"text/plain"}]
        \cup [op : {"auth"}, scheme : {"Bearer"}, token : {"tok"}]
BuildSteps ==
    [op : {"build.header"}, key : HeaderKeys, value : HeaderValues]
        \cup [op : {"build.accept"}, ctype : MediaTypes]
        \cup [op : {"build.contentType"}, ctype : {"text/plain"}]
        \cup [op : {"build.auth"}, scheme : {"Bearer"}, token : {"tok"}]

\* the response headers that matter to followLocation, and their values: the
\* empty string, a relative and an absolute URL
ReplyNames == {"Location", "location", "Content-Location"}
ReplyValues == {[host |-> NoHost, path |-> ""],
                [host |-> NoHost, path |-> "/b"],
                [host |-> "h2", path |-> "/a"]}

\* response headers: at most n of them, under distinct names
ReplyHeaderSets(n) ==
    {hs \in SeqsUpTo([name : ReplyNames, value : ReplyValues], n) :
        \A i, j \in DOMAIN hs : hs[i].name = hs[j].name => i = j}

\* promises
Pending == [status |-> "pending"]
Resolved(v) == [status |-> "resolved", value |-> v]
Rejected(e) == [status |-> "rejected", error |-> e]
Settled(p) == p.status # "pending"

\* what a call produces: a value, or a thrown error
Return(v) == [ok |-> TRUE, value |-> v]
Throw(e) == [ok |-> FALSE, error |-> e]

\* a value returned by the caller's disambiguator, with the list it was
\* called with
Asked(v, possible) == [ok |-> TRUE, value |-> v, asked |-> possible]

\* the errors of the engine (the fields are what the message carries)
RelativeUrlError(url) == [name |-> "RelativeURL", url |-> url]
NoMatchError(rel) == [name |-> "NoMatch", rel |-> rel]
AmbiguousMatchError(rel, possible) == [name |-> "Ambiguous", rel |-> rel, possible |-> possible]
TransportError(url) == [name |-> "Transport", url |-> url]
MissingHeaderError(names) == [name |-> "MissingHeader", headers |-> names]

----------------------------------------------------------------------------
(* URL utilities, navigation state, cache *)

\* Definitions take the values they branch on as parameters (rather than
\* naming them in a LET) wherever the value is the result of a deeper call.

Null == [null |-> TRUE]
IsRelative(url) == url.host = NoHost

\* (variant) a relative href is joined to the base without replacing its path
AbsoluteToBasePath(href, base) ==
    IF IsRelative(href) THEN [host |-> base.host, path |-> base.path] ELSE href

\* URI(href).absoluteTo(base): an absolute href stays, a relative one takes
\* the base's host
AbsoluteTo(href, base) ==
    IF IsRelative(href) THEN [host |-> base.host, path |-> href.path] ELSE href

\* (variant) the check for a relative result is missing
CheckAbsoluteLenient(url) == Return(url)

\* normalizeUrl: if (url.is("relative")) throw ...; return url.toString()
CheckAbsolute(url) ==
    IF IsRelative(url) THEN Throw(RelativeUrlError(url)) ELSE Return(url)

\* normalizeUrl(href, base) with no template parameters
normalizeUrl(href, base) ==
    CheckAbsolute(IF base # Null THEN AbsoluteTo(href, base) ELSE href)

\* the NavState around a normalized URL n (or the error normalizing threw)
StateAt(n, config, value) ==
    IF n.ok THEN Return([cur |-> n.value, config |-> config, value |-> value]) ELSE n

\* new NavState(href, undefined, config, value)
NavState(href, config, value) == StateAt(normalizeUrl(href, Null), config, value)

\* state.rebase(url)
rebase(state, url) == normalizeUrl(url, state.cur)

\* cache.getOr(url): the payload held for url, or undefined
getOr(c, url) == IF url \in DOMAIN c THEN c[url] ELSE Undefined

----------------------------------------------------------------------------
(* Steps *)

\* Request configurations and header mappings are JavaScript objects held by
\* reference: a NavState's config is a reference into heap.configs, a
\* configuration's headers field a reference into heap.headers.

EmptyHeaders == [k \in {} |-> ""]

\* config.headers of the configuration object `config`, {} when it has none
HeadersOf(h, config) ==
    IF "headers" \in DOMAIN config THEN h.headers[config.headers] ELSE EmptyHeaders

\* the header mapping a state sends, and its configuration object
StateHeaders(h, state) == HeadersOf(h, h.configs[state.config])
StateConfig(h, state) == h.configs[state.config]

\* { ...old, [key]: value }
WithHeader(old, key, value) ==
    [k \in DOMAIN old \cup {key} |-> IF k = key THEN value ELSE old[k]]

\* { ...config, headers }
WithHeaders(config, headers) ==
    [f \in DOMAIN config \cup {"headers"} |-> IF f = "headers" THEN headers ELSE config[f]]

\* let newconfig = { ...state.config }: newconfig is the last configuration
CopyConfig(h, config) == [h EXCEPT !.configs = Append(@, @[config])]

\* if (!newconfig.headers) newconfig.headers = {}
EnsureHeaders(h) ==
    IF "headers" \in DOMAIN h.configs[Len(h.configs)] THEN h
    ELSE [configs |-> [h.configs EXCEPT ![Len(h.configs)] = WithHeaders(@, Len(h.headers) + 1)],
          headers |-> Append(h.headers, EmptyHeaders)]

\* (variant) newconfig keeps the header object it has after the copy
FreshHeadersShared(h, config) == h

\* newconfig.headers = { ...state.config.headers }: a new header object
FreshHeaders(h, config) ==
    [configs |-> [h.configs EXCEPT ![Len(h.configs)] = WithHeaders(@, Len(h.headers) + 1)],
     headers |-> Append(h.headers, HeadersOf(h, h.configs[config]))]

\* newconfig.headers[key] = value
SetKey(h, key, value) ==
    [h EXCEPT !.headers[h.configs[Len(h.configs)].headers] = WithHeader(@, key, value)]

\* what a step that allocates produces: its outcome and the heap it leaves
WithHeap(done, h) ==
    [f \in DOMAIN done \cup {"heap"} |-> IF f = "heap" THEN h ELSE done[f]]
HeapAfter(done, h) == IF "heap" \in DOMAIN done THEN done.heap ELSE h

\* the heap once header(key, value) has built newconfig
headerHeap(key, value, state, h) ==
    SetKey(FreshHeaders(EnsureHeaders(CopyConfig(h, state.config)), state.config), key, value)

\* new NavState(state.cur, undefined, newconfig, cache.getOr(state.cur)) for
\* the newconfig built last in heap h
Reconfigured(state, c, h) ==
    WithHeap(NavState(state.cur, Len(h.configs), getOr(c, state.cur)), h)

\* header(key, value)(state, cache)
header(key, value, state, c, h) == Reconfigured(state, c, headerHeap(key, value, state, h))

\* contentType(ctype), auth(scheme, token): header under a fixed key
contentType(ctype, state, c, h) == header("Content-Type", ctype, state, c, h)
auth(scheme, token, state, c, h) ==
    header("Authorization", scheme \o " " \o token, state, c, h)

\* accept: ctype + ", " + cur when an Accept header is set, ctype otherwise
AcceptValue(ctype, headers) ==
    IF "Accept" \in DOMAIN headers THEN ctype \o ", " \o headers["Accept"] ELSE ctype

\* the heap once accept(ctype) has built newconfig
acceptHeap(ctype, state, h) ==
    SetKey(FreshHeaders(EnsureHeaders(CopyConfig(h, state.config)), state.config),
           "Accept", AcceptValue(ctype, HeadersOf(h, h.configs[state.config])))

\* accept(ctype)(state, cache)
accept(ctype, state, c, h) == Reconfigured(state, c, acceptHeap(ctype, state, h))

\* steps/build.ts: headerConfig(key, value)(config), a copy of the
\* configuration whose header mapping is a new object with key set
headerConfig(key, value, config, h) ==
    [configs |-> Append(h.configs, WithHeaders(h.configs[config], Len(h.headers) + 1)),
     headers |-> Append(h.headers, WithHeader(HeadersOf(h, h.configs[config]), key, value))]

\* steps/build.ts: new NavState(state.cur, undefined, newconfig) for the
\* newconfig built last in heap h
Rebuilt(state, h) == WithHeap(NavState(state.cur, Len(h.configs), Undefined), h)

\* steps/build.ts: header(key, value)(state), and the wrappers over it
buildHeader(key, value, state, h) == Rebuilt(state, headerConfig(key, value, state.config, h))
buildAccept(ctype, state, h) == buildHeader("Accept", ctype, state, h)
buildContentType(ctype, state, h) == buildHeader("Content-Type", ctype, state, h)
buildAuth(scheme, token, state, h) ==
    buildHeader("Authorization", scheme \o " " \o token, state, h)

\* isEmbeddedLink(entity)
isEmbeddedLink(entity) == "href" \in DOMAIN entity

\* getSelf(entity): the href of the entity's first self link, if any
SelfLinksOf(entity) == {i \in DOMAIN entity.links : "self" \in entity.links[i].rel}
FirstOf(S) == CHOOSE i \in S : \A j \in S : i <= j
getSelf(entity) ==
    IF SelfLinksOf(entity) = {} THEN Undefined
    ELSE entity.links[FirstOf(SelfLinksOf(entity))].href

\* (variant) the candidate is given the caller's initial configuration
PushInitialConfig(abs, state, c) ==
    IF abs.ok THEN NavState(abs.value, 1, getOr(c, abs.value)) ELSE abs

\* possible.push(new NavState(abs, parameters, state.config, cache.getOr(abs)))
\* for abs = state.rebase(href)
Push(abs, state, c) ==
    IF abs.ok THEN NavState(abs.value, state.config, getOr(c, abs.value)) ELSE abs

Candidate(href, state, c) == Push(rebase(state, href), state, c)

\* (variant) a representation without a self link is an error
SelfPossibleStrict(self, state, c) ==
    IF self # Undefined THEN <<Candidate(self, state, c)>>
    ELSE <<Throw(NoMatchError("self"))>>

\* let self = getSelf(entity); if (self) { ...push... }
SelfPossible(self, state, c) ==
    IF self # Undefined THEN <<Candidate(self, state, c)>> ELSE <<>>

\* what one sub-entity adds to `possible` (the body of the entities loop)
EntityPossible(rel, entity, state, c) ==
    IF rel \notin entity.rel THEN <<>>
    ELSE IF "href" \in DOMAIN entity THEN <<Candidate(entity.href, state, c)>>
    ELSE IF ~isEmbeddedLink(entity) THEN SelfPossible(getSelf(entity), state, c)
    ELSE <<>>

\* what one top-level link adds to `possible` (the body of the links loop)
LinkPossible(rel, link, state, c) ==
    IF rel \notin link.rel THEN <<>> ELSE <<Candidate(link.href, state, c)>>

RECURSIVE Flat(_)
Flat(seqs) == IF seqs = <<>> THEN <<>> ELSE Head(seqs) \o Flat(Tail(seqs))

\* the sub-entities with the embedded links moved before the representations
LinksBeforeRepresentations(entities) ==
    SelectSeq(entities, isEmbeddedLink) \o SelectSeq(entities, LAMBDA e : ~isEmbeddedLink(e))

\* (variant) the entities loop runs twice: embedded links, then representations
EntitiesPossibleGrouped(rel, entities, state, c) ==
    Flat([i \in DOMAIN entities |->
            EntityPossible(rel, LinksBeforeRepresentations(entities)[i], state, c)])

RECURSIVE EntitiesPossible(_, _, _, _)
EntitiesPossible(rel, entities, state, c) ==
    IF entities = <<>> THEN <<>>
    ELSE EntityPossible(rel, Head(entities), state, c)
             \o EntitiesPossible(rel, Tail(entities), state, c)

RECURSIVE LinksPossible(_, _, _, _)
LinksPossible(rel, links, state, c) ==
    IF links = <<>> THEN <<>>
    ELSE LinkPossible(rel, Head(links), state, c)
             \o LinksPossible(rel, Tail(links), state, c)

\* every push of findPossible, in the order it is made: the entities loop,
\* then the links loop
Matches(rel, siren, state, c) ==
    EntitiesPossible(rel, siren.entities, state, c)
        \o LinksPossible(rel, siren.links, state, c)

\* `possible` once the loops are over; the first failing push throws
Pushed(made) ==
    IF \E i \in DOMAIN made : ~made[i].ok
    THEN made[FirstOf({i \in DOMAIN made : ~made[i].ok})]
    ELSE Return([i \in DOMAIN made |-> made[i].value])

\* findPossible(rel, siren, state, cache, undefined)
findPossible(rel, siren, state, c) == Pushed(Matches(rel, siren, state, c))

\* the caller's disambiguator applied to the candidates
ApplyWhich(which, possible) ==
    IF which = "first" THEN possible[1] ELSE possible[Len(possible)]

\* (variant) several matches without a disambiguator: the first one is taken
SelectLenient(rel, which, possible) ==
    IF Len(possible) = 0 THEN Throw(NoMatchError(rel))
    ELSE IF Len(possible) > 1 /\ which # NoWhich
         THEN Asked(ApplyWhich(which, possible), possible)
         ELSE Return(possible[1])

\* follow's callback once findPossible has returned `possible`
Select(rel, which, possible) ==
    IF Len(possible) = 0 THEN Throw(NoMatchError(rel))
    ELSE IF Len(possible) > 1
         THEN IF which = NoWhich
              THEN Throw(AmbiguousMatchError(rel, possible))
              ELSE Asked(ApplyWhich(which, possible), possible)
         ELSE Return(possible[1])

FollowFound(rel, which, found) ==
    IF found.ok THEN Select(rel, which, found.value) ELSE found

\* the callback of follow(rel, undefined, which) on the fetched document
follow(rel, which, siren, state, c) ==
    FollowFound(rel, which, findPossible(rel, siren, state, c))

\* (variant) followEach shares follow's check for an empty result
followEachStrict(rel, siren, state, c) ==
    IF Matches(rel, siren, state, c) = <<>> THEN Throw(NoMatchError(rel))
    ELSE findPossible(rel, siren, state, c)

\* the callback of followEach(rel, undefined) on the fetched document
followEach(rel, siren, state, c) == findPossible(rel, siren, state, c)

\* (variant) a failure of the step is swallowed: no successor
toMultiLenient(done) ==
    IF done.ok THEN [done EXCEPT !.value = <<done.value>>] ELSE Return(<<>>)

\* toMulti(step): the step's state in a one-element list
toMulti(done) == IF done.ok THEN [done EXCEPT !.value = <<done.value>>] ELSE done

\* the response of the transport: status aside, its headers (a sequence of
\* name and value, names distinct) and its data
HeaderValue(headers, name) ==
    IF \E i \in DOMAIN headers : headers[i].name = name
    THEN headers[CHOOSE i \in DOMAIN headers : headers[i].name = name].value
    ELSE Undefined

\* Object.keys(resp.headers)
Names(headers) == [i \in DOMAIN headers |-> headers[i].name]

\* the empty string, and JavaScript's !v for a header value
EmptyValue == [host |-> NoHost, path |-> ""]
Falsy(v) == v = Undefined \/ v = EmptyValue

\* a || b
OrElse(a, b) == IF Falsy(a) THEN b ELSE a

\* resp.headers["Location"] || resp.headers["location"]
LocationOf(headers) ==
    OrElse(HeaderValue(headers, "Location"), HeaderValue(headers, "location"))

\* followLocation once the location has been read
FollowLocated(location, headers, state, c) ==
    IF Falsy(location) THEN Throw(MissingHeaderError(Names(headers)))
    ELSE Candidate(location, state, c)

\* followLocation(state, cache) on the response of getRequest(state)
followLocation(headers, state, c) ==
    FollowLocated(LocationOf(headers), headers, state, c)

\* NavResponse.followLocation once the location has been read:
\* new NavState(location, state.root, state.config, cache.getOr(location))
ResponseLocated(location, headers, state, c) ==
    IF Falsy(location) THEN Throw(MissingHeaderError(Names(headers)))
    ELSE NavState(location, state.config, getOr(c, location))

\* the step NavResponse.followLocation() adds, on the response this.resp
responseFollowLocation(resp, state, c) ==
    IF resp.status = "rejected" THEN Throw(resp.error)
    ELSE ResponseLocated(LocationOf(resp.value.headers), resp.value.headers, state, c)

\* a step is applied: a single step, or a multi-step (followEach, toMulti)
SingleDone(step, resp, state, c, h) ==
    CASE step.op = "follow" -> follow(step.rel, step.which, resp.data, state, c)
      [] step.op = "header" -> header(step.key, step.value, state, c, h)
      [] step.op = "accept" -> accept(step.ctype, state, c, h)
      [] step.op = "contentType" -> contentType(step.ctype, state, c, h)
      [] step.op = "auth" -> auth(step.scheme, step.token, state, c, h)
      [] step.op = "build.header" -> buildHeader(step.key, step.value, state, h)
      [] step.op = "build.accept" -> buildAccept(step.ctype, state, h)
      [] step.op = "build.contentType" -> buildContentType(step.ctype, state, h)
      [] step.op = "build.auth" -> buildAuth(step.scheme, step.token, state, h)
      [] step.op = "followLocation" -> followLocation(resp.headers, state, c)
      [] step.op = "NavResponse.followLocation" ->
             responseFollowLocation(step.resp, state, c)

StepDone(step, resp, state, c, h) ==
    IF step.op = "followEach" THEN followEach(step.rel, resp.data, state, c)
    ELSE IF step.op = "toMulti" THEN toMulti(SingleDone(step.step, resp, state, c, h))
    ELSE SingleDone(step, resp, state, c, h)

\* the single step a multi-step wraps (toMulti), or the step itself
Inner(step) == IF step.op = "toMulti" THEN step.step ELSE step

\* the step starts with a transport request: getSiren(state), getRequest(state)
Fetches(step) == Inner(step).op \in {"follow", "followEach", "followLocation"}

\* the calls of cache.getOr the step makes
GetOrCalls(step, resp, state, c) ==
    CASE Inner(step).op \in {"follow", "followEach"} ->
             Len(Matches(Inner(step).rel, resp.data, state, c))
      [] Inner(step).op \in {"header", "accept", "contentType", "auth"} -> 1
      [] Inner(step).op = "followLocation" ->
             IF Falsy(LocationOf(resp.headers)) THEN 0 ELSE 1
      [] Inner(step).op = "NavResponse.followLocation" ->
             IF Inner(step).resp.status = "rejected"
                   \/ Falsy(LocationOf(Inner(step).resp.value.headers))
             THEN 0 ELSE 1
      [] OTHER -> 0

Settle(done) == IF done.ok THEN Resolved(done.value) ELSE Rejected(done.error)

----------------------------------------------------------------------------
(* State *)

VARIABLES
    server,      \* the document the transport answers with
    cache,       \* the Cache passed to every step: URL -> payload
    mode,        \* the entry point running: "reduce" or "reduceEach"
    program,     \* the step list (wave list) the entry point was called with
    start,       \* the initial state (list of states) it was called with
    steps,       \* `steps` of the current reduce / reduceEach call
    cur,         \* `cur` of the current reduce / reduceEach call (a promise)
    frame,       \* the running applySteps: step, states, i, ret
    awaited,     \* the promise applySteps awaits: step(states[i], cache)
    inflight,    \* transport requests sent and not yet answered
    out,         \* the promise the entry point returned to its caller
    log,         \* history: step calls and their outcomes, in order
    fetched,     \* history: the URLs requested from the transport, in order
    cacheReads,  \* history: the number of cache.getOr calls
    replyHeaders, \* the response headers the transport answers with
    heap         \* the configuration and header objects allocated so far

vars == <<server, cache, mode, program, start, steps, cur, frame, awaited,
          inflight, out, log, fetched, cacheReads, replyHeaders, heap>>

NoFrame == [running |-> FALSE]
NoPromise == [status |-> "none"]

\* the payload observed at a URL
Payload(url, doc) == [url |-> url, data |-> doc]

\* the URLs the caller's cache may hold at the start
CachedUrls == {[host |-> "h2", path |-> "/b"]}
Caches(doc) == {[u \in D |-> Payload(u, doc)] : D \in SUBSET CachedUrls}

----------------------------------------------------------------------------
(* Calling a step, and the transport *)

\* what the transport answers a request with: resp.data and resp.headers
Reply == [data |-> server, headers |-> replyHeaders]

\* the heap a navigation starts with: the caller's request configuration
BaseHeap == [configs |-> <<BaseConfig>>, headers |-> <<>>]

\* getSiren(state): axios.get(state.cur, state.config); the request carries
\* the callback waiting for its answer (step k of the program, applied to
\* element `at` of the working set)
Request(step, state, k, at) ==
    [url |-> state.cur, config |-> state.config, step |-> step, state |-> state,
     k |-> k, at |-> at]

CallEvent(step, state, k, at) ==
    [ev |-> "call", k |-> k, at |-> at, step |-> step, state |-> state]
DoneEvent(done, k, at) ==
    IF ~done.ok THEN [ev |-> "throw", k |-> k, at |-> at, error |-> done.error]
    ELSE IF "asked" \in DOMAIN done
         THEN [ev |-> "ret", k |-> k, at |-> at, value |-> done.value, asked |-> done.asked]
         ELSE [ev |-> "ret", k |-> k, at |-> at, value |-> done.value]

\* the promise step(state, cache) returns: pending on the transport, or
\* already settled for a step that awaits nothing
CallPromise(step, state) ==
    IF Fetches(step) THEN Pending ELSE Settle(StepDone(step, Reply, state, cache, heap))

\* what calling step(state, cache) does besides returning its promise
Call(step, state, k, at) ==
    IF Fetches(step)
    THEN /\ inflight' = inflight \cup {Request(step, state, k, at)}
         /\ fetched' = Append(fetched, state.cur)
         /\ log' = Append(log, CallEvent(step, state, k, at))
         /\ cacheReads' = cacheReads
         /\ heap' = heap
    ELSE /\ inflight' = inflight
         /\ fetched' = fetched
         /\ log' = log \o <<CallEvent(step, state, k, at),
                            DoneEvent(StepDone(step, Reply, state, cache, heap), k, at)>>
         /\ cacheReads' = cacheReads + GetOrCalls(step, Reply, state, cache)
         /\ heap' = HeapAfter(StepDone(step, Reply, state, cache, heap), heap)

\* the promise of the step that sent request r settles with `done`
Answer(r, done) ==
    /\ inflight' = inflight \ {r}
    /\ log' = Append(log, DoneEvent(done, r.k, r.at))
    /\ IF mode = "reduce"
       THEN cur' = Settle(done) /\ awaited' = awaited
       ELSE awaited' = Settle(done) /\ cur' = cur
    /\ UNCHANGED <<server, replyHeaders, heap, cache, mode, program, start, steps, frame, out, fetched>>

\* the transport answers request r with the document: resp.data as Siren,
\* then the step's callback runs on it
Respond(r) ==
    /\ r \in inflight
    /\ Answer(r, StepDone(r.step, Reply, r.state, cache, heap))
    /\ cacheReads' = cacheReads + GetOrCalls(r.step, Reply, r.state, cache)

\* the transport fails request r: the error reaches the step's promise as is
TransportFail(r) ==
    /\ r \in inflight
    /\ Answer(r, Throw(TransportError(r.url)))
    /\ cacheReads' = cacheReads

----------------------------------------------------------------------------
(* reduce *)

StepIndex == Len(program) - Len(steps) + 1

\* (variant) the empty case rebuilds the state through the cache
ReduceReturnRebuilt ==
    /\ mode = "reduce" /\ out = Pending
    /\ steps = <<>>
    /\ Settled(cur)
    /\ out' = IF cur.status = "resolved"
              THEN Settle(NavState(cur.value.cur, cur.value.config, getOr(cache, cur.value.cur)))
              ELSE cur
    /\ cacheReads' = cacheReads + 1
    /\ UNCHANGED <<server, replyHeaders, heap, cache, mode, program, start, steps, cur, frame, awaited,
                   inflight, log, fetched>>

\* if (steps.length == 0) return cur
ReduceReturn ==
    /\ mode = "reduce" /\ out = Pending
    /\ steps = <<>>
    /\ Settled(cur)
    /\ out' = cur
    /\ UNCHANGED <<server, replyHeaders, heap, cache, mode, program, start, steps, cur, frame, awaited,
                   inflight, log, fetched, cacheReads>>

\* (variant) every step is applied to the initial state
ReduceApplyToStart ==
    /\ mode = "reduce" /\ out = Pending
    /\ steps # <<>>
    /\ cur.status = "resolved"
    /\ cur' = CallPromise(steps[1], start)
    /\ Call(steps[1], start, StepIndex, 0)
    /\ steps' = Tail(steps)
    /\ UNCHANGED <<server, replyHeaders, cache, mode, program, start, frame, awaited, out>>

\* const state = await cur; return reduce(applyStep(steps[0], state, cache), steps.slice(1), cache)
ReduceApply ==
    /\ mode = "reduce" /\ out = Pending
    /\ steps # <<>>
    /\ cur.status = "resolved"
    /\ cur' = CallPromise(steps[1], cur.value)
    /\ Call(steps[1], cur.value, StepIndex, 0)
    /\ steps' = Tail(steps)
    /\ UNCHANGED <<server, replyHeaders, cache, mode, program, start, frame, awaited, out>>

\* (variant) a failed step is skipped: the reduction goes on from the
\* initial state
ReduceThrowSkips ==
    /\ mode = "reduce" /\ out = Pending
    /\ steps # <<>>
    /\ cur.status = "rejected"
    /\ cur' = Resolved(start)
    /\ UNCHANGED <<server, replyHeaders, heap, cache, mode, program, start, steps, out, frame, awaited,
                   inflight, log, fetched, cacheReads>>

\* await cur throws: the remaining steps are never applied
ReduceThrow ==
    /\ mode = "reduce" /\ out = Pending
    /\ steps # <<>>
    /\ cur.status = "rejected"
    /\ out' = Rejected(cur.error)
    /\ UNCHANGED <<server, replyHeaders, heap, cache, mode, program, start, steps, cur, frame, awaited,
                   inflight, log, fetched, cacheReads>>

----------------------------------------------------------------------------
(* reduceEach and applySteps *)

\* if (steps.length == 0) return cur
ReduceEachReturn ==
    /\ mode = "reduceEach" /\ out = Pending
    /\ steps = <<>>
    /\ Settled(cur)
    /\ out' = cur
    /\ UNCHANGED <<server, replyHeaders, heap, cache, mode, program, start, steps, cur, frame, awaited,
                   inflight, log, fetched, cacheReads>>

\* (variant) every wave is applied to the initial states
ReduceEachApplyToStart ==
    /\ mode = "reduceEach" /\ out = Pending
    /\ steps # <<>>
    /\ cur.status = "resolved"
    /\ steps' = Tail(steps)
    /\ IF start = <<>>
       THEN /\ cur' = Resolved(<<>>)
            /\ UNCHANGED <<frame, awaited, inflight, log, fetched, cacheReads, heap>>
       ELSE /\ cur' = Pending
            /\ frame' = [running |-> TRUE, step |-> steps[1], states |-> start,
                         k |-> StepIndex, i |-> 1, ret |-> <<>>]
            /\ awaited' = CallPromise(steps[1], start[1])
            /\ Call(steps[1], start[1], StepIndex, 1)
    /\ UNCHANGED <<server, replyHeaders, cache, mode, program, start, out>>

\* const states = await cur; return reduceEach(applySteps(steps[0], states, cache), ...):
\* applySteps runs up to its first await, step(states[0], cache) (element 1 here)
ReduceEachApply ==
    /\ mode = "reduceEach" /\ out = Pending
    /\ steps # <<>>
    /\ cur.status = "resolved"
    /\ steps' = Tail(steps)
    /\ IF cur.value = <<>>
       THEN /\ cur' = Resolved(<<>>)
            /\ UNCHANGED <<frame, awaited, inflight, log, fetched, cacheReads, heap>>
       ELSE /\ cur' = Pending
            /\ frame' = [running |-> TRUE, step |-> steps[1], states |-> cur.value,
                         k |-> StepIndex, i |-> 1, ret |-> <<>>]
            /\ awaited' = CallPromise(steps[1], cur.value[1])
            /\ Call(steps[1], cur.value[1], StepIndex, 1)
    /\ UNCHANGED <<server, replyHeaders, cache, mode, program, start, out>>

\* await cur throws: no later wave is applied
ReduceEachThrow ==
    /\ mode = "reduceEach" /\ out = Pending
    /\ steps # <<>>
    /\ cur.status = "rejected"
    /\ out' = Rejected(cur.error)
    /\ UNCHANGED <<server, replyHeaders, heap, cache, mode, program, start, steps, cur, frame, awaited,
                   inflight, log, fetched, cacheReads>>

\* (variant) ret = [...results, ...ret]
ApplyStepsResumePrepend ==
    /\ frame.running
    /\ awaited.status = "resolved"
    /\ LET ret == awaited.value \o frame.ret
           i   == frame.i + 1
       IN  IF i <= Len(frame.states)
           THEN /\ frame' = [frame EXCEPT !.i = i, !.ret = ret]
                /\ awaited' = CallPromise(frame.step, frame.states[i])
                /\ Call(frame.step, frame.states[i], frame.k, i)
                /\ cur' = cur
           ELSE /\ frame' = NoFrame
                /\ awaited' = NoPromise
                /\ cur' = Resolved(ret)
                /\ UNCHANGED <<inflight, log, fetched, cacheReads, heap>>
    /\ UNCHANGED <<server, replyHeaders, cache, mode, program, start, steps, out>>

\* results arrive: ret = [...ret, ...results]; i++; then the next
\* step(states[i], cache), or return ret
ApplyStepsResume ==
    /\ frame.running
    /\ awaited.status = "resolved"
    /\ LET ret == frame.ret \o awaited.value
           i   == frame.i + 1
       IN  IF i <= Len(frame.states)
           THEN /\ frame' = [frame EXCEPT !.i = i, !.ret = ret]
                /\ awaited' = CallPromise(frame.step, frame.states[i])
                /\ Call(frame.step, frame.states[i], frame.k, i)
                /\ cur' = cur
           ELSE /\ frame' = NoFrame
                /\ awaited' = NoPromise
                /\ cur' = Resolved(ret)
                /\ UNCHANGED <<inflight, log, fetched, cacheReads, heap>>
    /\ UNCHANGED <<server, replyHeaders, cache, mode, program, start, steps, out>>

\* (variant) a failing state ends the wave with the successors so far
ApplyStepsThrowPartial ==
    /\ frame.running
    /\ awaited.status = "rejected"
    /\ frame' = NoFrame
    /\ awaited' = NoPromise
    /\ cur' = Resolved(frame.ret)
    /\ UNCHANGED <<server, replyHeaders, heap, cache, mode, program, start, steps, out,
                   inflight, log, fetched, cacheReads>>

\* (variant) a failing state is skipped: the wave goes on with the next one
ApplyStepsThrowContinues ==
    /\ frame.running
    /\ awaited.status = "rejected"
    /\ IF frame.i + 1 <= Len(frame.states)
       THEN /\ frame' = [frame EXCEPT !.i = frame.i + 1]
            /\ awaited' = CallPromise(frame.step, frame.states[frame.i + 1])
            /\ Call(frame.step, frame.states[frame.i + 1], frame.k, frame.i + 1)
            /\ cur' = cur
       ELSE /\ frame' = NoFrame
            /\ awaited' = NoPromise
            /\ cur' = Rejected(awaited.error)
            /\ UNCHANGED <<inflight, log, fetched, cacheReads, heap>>
    /\ UNCHANGED <<server, replyHeaders, cache, mode, program, start, steps, out>>

\* the awaited step throws: applySteps rejects and ret is dropped
ApplyStepsThrow ==
    /\ frame.running
    /\ awaited.status = "rejected"
    /\ frame' = NoFrame
    /\ awaited' = NoPromise
    /\ cur' = Rejected(awaited.error)
    /\ UNCHANGED <<server, replyHeaders, heap, cache, mode, program, start, steps, out,
                   inflight, log, fetched, cacheReads>>

----------------------------------------------------------------------------
(* Specifications *)

\* the state a navigation starts from at URL u: new NavState(u, undefined,
\* config, cache.getOr(u))
StartState(u) == [cur |-> u, config |-> 1, value |-> getOr(cache, u)]

InitRun(md, prog, st) ==
    /\ mode = md
    /\ program = prog
    /\ steps = prog
    /\ start = st
    /\ cur = Resolved(st)
    /\ frame = NoFrame
    /\ awaited = NoPromise
    /\ inflight = {}
    /\ out = Pending
    /\ log = <<>>
    /\ fetched = <<>>
    /\ cacheReads = 0

\* reductions of step lists and wave lists over the sample documents; the
\* initial states carry what the cache holds for their URL
Init ==
    /\ server \in SampleDocs
    /\ replyHeaders = <<>>
    /\ heap = BaseHeap
    /\ cache \in Caches(server)
    /\ \E md \in {"reduce", "reduceEach"} :
          IF md = "reduce"
          THEN \E prog \in SeqsUpTo(SingleSteps, MaxSteps), u \in StartUrls :
                  InitRun(md, prog, StartState(u))
          ELSE \E prog \in SeqsUpTo(MultiSteps, MaxWaves), us \in SeqsUpTo(StartUrls, MaxStates) :
                  InitRun(md, prog, [i \in DOMAIN us |-> StartState(us[i])])

Next ==
    \/ ReduceReturn
    \/ ReduceApply
    \/ ReduceThrow
    \/ ReduceEachReturn
    \/ ReduceEachApply
    \/ ReduceEachThrow
    \/ ApplyStepsResume
    \/ ApplyStepsThrow
    \/ \E r \in inflight : Respond(r)
    \/ \E r \in inflight : TransportFail(r)

Spec == Init /\ [][Next]_vars

\* one step (one wave over one state) applied to every document within the
\* bounds; the initial state carries what the cache holds for its URL
StepInit ==
    /\ server \in Sirens(MaxEntities, MaxLinks)
    /\ replyHeaders = <<>>
    /\ heap = BaseHeap
    /\ cache \in Caches(server)
    /\ \E md \in {"reduce", "reduceEach"}, u \in StartUrls :
          IF md = "reduce"
          THEN \E step \in SingleSteps : InitRun(md, <<step>>, StartState(u))
          ELSE \E step \in MultiSteps : InitRun(md, <<step>>, <<StartState(u)>>)

\* the single-step runs over every document, next to the reductions of Spec
StepSpec == (StepInit \/ Init) /\ [][Next]_vars

\* one follow or followEach of the relation "next" applied to every document
\* within the bounds
FindInit ==
    /\ server \in Sirens(MaxEntities, MaxLinks)
    /\ replyHeaders = <<>>
    /\ heap = BaseHeap
    /\ cache \in Caches(server)
    /\ \E md \in {"reduce", "reduceEach"}, u \in StartUrls :
          IF md = "reduce"
          THEN \E which \in {NoWhich, "last"} :
                  InitRun(md, <<[op |-> "follow", rel |-> "next", which |-> which]>>,
                          StartState(u))
          ELSE InitRun(md, <<[op |-> "followEach", rel |-> "next"]>>, <<StartState(u)>>)

\* a single step leaves no step to skip after a failure
FindNext ==
    \/ ReduceReturn
    \/ ReduceApply
    \/ ReduceEachReturn
    \/ ReduceEachApply
    \/ ApplyStepsResume
    \/ ApplyStepsThrow
    \/ \E r \in inflight : Respond(r)
    \/ \E r \in inflight : TransportFail(r)

FindSpec == FindInit /\ [][FindNext]_vars

\* the heaps a navigation may start with: the caller's configuration without
\* headers, or with an Accept header
AcceptingHeap ==
    [configs |-> <<[timeout |-> "t", headers |-> 1]>>,
     headers |-> <<[Accept |-> "text/html"]>>]
StartHeaps == {BaseHeap, AcceptingHeap}

\* reductions of lists of header steps (all of steps.ts, or all of
\* steps/build.ts); the caller's initial state carries a response or none,
\* whatever the cache holds
ConfigInit ==
    /\ server = [entities |-> <<>>, links |-> <<>>]
    /\ replyHeaders = <<>>
    /\ heap \in StartHeaps
    /\ cache \in Caches(server)
    /\ \E prog \in SeqsUpTo(ConfigSteps, MaxConfigSteps) \cup SeqsUpTo(BuildSteps, MaxConfigSteps),
          u \in StartUrls, held \in BOOLEAN :
          InitRun("reduce", prog,
                  [cur |-> u, config |-> 1,
                   value |-> IF held THEN Payload(u, server) ELSE Undefined])

\* header steps await nothing and never fail
ConfigNext ==
    \/ ReduceReturn
    \/ ReduceApply

ConfigSpec == ConfigInit /\ [][ConfigNext]_vars

\* the followLocation step, and the steps NavResponse.followLocation() adds
\* for a response received earlier (this.resp: fulfilled with resp, or
\* rejected by the transport)
LocationStep == [op |-> "followLocation"]
ResponseSteps(resp, url) ==
    [op : {"NavResponse.followLocation"},
     resp : {Resolved(resp), Rejected(TransportError(url))}]

\* reductions of followLocation steps against every set of response headers
\* within the bound
LocationInit ==
    /\ server = [entities |-> <<>>, links |-> <<>>]
    /\ replyHeaders \in ReplyHeaderSets(MaxReplyHeaders)
    /\ heap = BaseHeap
    /\ cache \in Caches(server)
    /\ \E u \in StartUrls :
          \E prog \in SeqsUpTo({LocationStep} \cup ResponseSteps(Reply, u), MaxSteps) :
              InitRun("reduce", prog, StartState(u))

LocationNext ==
    \/ ReduceReturn
    \/ ReduceApply
    \/ ReduceThrow
    \/ \E r \in inflight : Respond(r)
    \/ \E r \in inflight : TransportFail(r)

LocationSpec == LocationInit /\ [][LocationNext]_vars

\* the documents and the response headers the mixed reductions are served:
\* two matches of "next" and none of "item"; one match of each (a
\* representation, a link); a relative Location, an absolute location next
\* to another header, no Location
NavDocs ==
    { [entities |-> <<NextAway>>, links |-> <<NextLink>>],
      [entities |-> <<NextRep>>,  links |-> <<ItemLink>>] }
NavReplies ==
    { <<[name |-> "Location", value |-> [host |-> NoHost, path |-> "/b"]]>>,
      <<[name |-> "Content-Location", value |-> [host |-> "h2", path |-> "/a"]],
        [name |-> "location", value |-> [host |-> "h2", path |-> "/a"]]>>,
      <<[name |-> "Content-Location", value |-> [host |-> "h2", path |-> "/a"]]>> }

\* one step of every kind of steps.ts
NavSteps(resp, url) ==
    [op : {"follow"}, rel : StepRels, which : {NoWhich, "last"}]
        \cup HeaderSteps
        \cup [op : {"accept"}, ctype : {"application/json"}]
        \cup [op : {"contentType"}, ctype : {"text/plain"}]
        \cup [op : {"auth"}, scheme : {"Bearer"}, token : {"tok"}]
        \cup {LocationStep}
        \cup ResponseSteps(resp, url)
NavWaves(resp, url) ==
    FollowEachSteps \cup [op : {"toMulti"}, step : NavSteps(resp, url)]

\* reductions mixing steps of every kind: reduce from one state, reduceEach
\* from a working set of one state
NavInit ==
    /\ server \in NavDocs
    /\ replyHeaders \in NavReplies
    /\ heap = BaseHeap
    /\ cache \in Caches(server)
    /\ \E u \in StartUrls, md \in {"reduce", "reduceEach"} :
          IF md = "reduce"
          THEN \E prog \in SeqsUpTo(NavSteps(Reply, u), MaxSteps) :
                  InitRun(md, prog, StartState(u))
          ELSE \E prog \in SeqsUpTo(NavWaves(Reply, u), MaxWaves) :
                  InitRun(md, prog, <<StartState(u)>>)

NavSpec == NavInit /\ [][Next]_vars

----------------------------------------------------------------------------
(* Properties of reduce *)

\* C1: reduce applies the steps strictly in list order: the log of a
\* reduction is call 1, outcome 1, call 2, outcome 2, ...; call k applies
\* program[k], call 1 to the initial state and call k+1 to exactly the state
\* step k returned, never before step k has returned; a reduction that
\* resolves has applied every step once and resolves with the state the
\* last step returned.
ReduceAppliesStepsInOrder ==
    mode = "reduce" =>
        /\ \A j \in DOMAIN log :
              IF j % 2 = 1
              THEN /\ log[j].ev = "call"
                   /\ log[j].k = (j + 1) \div 2
                   /\ log[j].step = program[(j + 1) \div 2]
                   /\ IF j = 1 THEN log[j].state = start
                      ELSE log[j - 1].ev = "ret" /\ log[j].state = log[j - 1].value
              ELSE /\ log[j].ev \in {"ret", "throw"}
                   /\ log[j].k = j \div 2
        /\ out.status = "resolved" =>
              /\ Len(log) = 2 * Len(program)
              /\ IF program = <<>> THEN out.value = start
                 ELSE log[Len(log)].ev = "ret" /\ out.value = log[Len(log)].value

\* a two-step reduction has resolved, the second step having received a
\* state other than the initial one
ReduceTwoStepsDone ==
    /\ mode = "reduce"
    /\ Len(program) = 2
    /\ out.status = "resolved"
    /\ Len(log) = 4
    /\ log[3].state # start
    /\ out.value # log[3].state

\* C2: when a step of reduce fails, no later step is ever called, the
\* reduction never resolves, and it rejects with exactly the error that
\* step raised.
ReduceFailureAborts ==
    mode = "reduce" =>
        \A j \in DOMAIN log :
            log[j].ev = "throw" =>
                /\ j = Len(log)
                /\ out \in {Pending, Rejected(log[j].error)}
                /\ out = Pending => ENABLED (ReduceThrow \/ ReduceReturn)

\* the first of two steps found no match; the reduction has rejected with
\* that error and the second step was never applied
ReduceFirstStepFailed ==
    /\ mode = "reduce"
    /\ Len(program) = 2
    /\ Len(log) = 2
    /\ log[2].ev = "throw"
    /\ log[2].error.name = "NoMatch"
    /\ out = Rejected(log[2].error)
    /\ Len(steps) = 1

\* C3: reduce with no steps returns the initial state unchanged: it calls
\* no step, sends no transport request and never reads the cache.
ReduceEmptyIsIdentity ==
    (mode = "reduce" /\ program = <<>>) =>
        /\ log = <<>>
        /\ fetched = <<>>
        /\ inflight = {}
        /\ cacheReads = 0
        /\ out \in {Pending, Resolved(start)}
        /\ out = Pending => ENABLED ReduceReturn

\* a reduction with no steps has returned
ReduceEmptyDone ==
    /\ mode = "reduce"
    /\ program = <<>>
    /\ out = Resolved(start)

----------------------------------------------------------------------------
(* Properties of the cache and of reduceEach *)

\* C4: within one cache scope no URL is requested from the transport twice
\* (the second access to a URL is served from the cache).
OneFetchPerUrl ==
    \A i, j \in DOMAIN fetched : fetched[i] = fetched[j] => i = j

\* the events of wave k of the given kind, in the order they happened
WaveEvents(k, ev) == SelectSeq(log, LAMBDA e : e.k = k /\ e.ev = ev)

\* the successor lists of the given outcomes, joined in order
RECURSIVE Joined(_)
Joined(rets) == IF rets = <<>> THEN <<>> ELSE Head(rets).value \o Joined(Tail(rets))

\* the working set wave k is applied to
WaveInput(k) == IF k = 1 THEN start ELSE Joined(WaveEvents(k - 1, "ret"))

\* the number of waves applied in full
WavesDone == Len(program) - Len(steps)

WaveComplete ==
    /\ mode = "reduceEach"
    /\ ~frame.running
    /\ cur.status = "resolved"
    /\ WavesDone >= 1

\* C5: the working set after a wave of reduceEach is the successor lists of
\* the wave's input states joined in input order: the i-th list joined is
\* the one returned for input state i, and nothing else is in the set.
WaveConcatenatesInOrder ==
    WaveComplete =>
        /\ Len(WaveEvents(WavesDone, "ret")) = Len(WaveInput(WavesDone))
        /\ \A i \in DOMAIN WaveEvents(WavesDone, "ret") :
              WaveEvents(WavesDone, "ret")[i].at = i
        /\ cur.value = Joined(WaveEvents(WavesDone, "ret"))
        /\ (steps = <<>> /\ out # Pending) => out = cur

\* a wave over two input states has ended, each state having returned its
\* own non-empty successor list
WaveOfTwoDone ==
    /\ WaveComplete
    /\ Len(WaveInput(WavesDone)) = 2
    /\ Len(WaveEvents(WavesDone, "ret")) = 2
    /\ WaveEvents(WavesDone, "ret")[1].value # <<>>
    /\ WaveEvents(WavesDone, "ret")[2].value # <<>>
    /\ WaveEvents(WavesDone, "ret")[1].value # WaveEvents(WavesDone, "ret")[2].value

\* the outcomes of wave k logged before position b
OutcomesBefore(k, b) == {a \in 1..(b - 1) : log[a].k = k /\ log[a].ev = "ret"}

\* C6: reduceEach has a full-wave barrier: the events of the waves follow
\* each other in wave order, a call of wave k+1 happens only after every
\* state of wave k's working set has returned its successors, and it applies
\* wave k+1's step to a state wave k produced (the one at its position).
WaveBarrier ==
    mode = "reduceEach" =>
        \A b \in DOMAIN log :
            /\ \A a \in 1..(b - 1) : log[a].k <= log[b].k
            /\ log[b].ev = "call" =>
                  /\ log[b].step = program[log[b].k]
                  /\ log[b].at \in DOMAIN WaveInput(log[b].k)
                  /\ log[b].state = WaveInput(log[b].k)[log[b].at]
                  /\ log[b].k > 1 =>
                        Cardinality(OutcomesBefore(log[b].k - 1, b))
                            = Len(WaveInput(log[b].k - 1))

\* the second wave is being applied to the second state of a working set
\* the first wave produced from two input states
SecondWaveRunning ==
    /\ mode = "reduceEach"
    /\ Len(start) = 2
    /\ \E b \in DOMAIN log :
          /\ log[b].ev = "call" /\ log[b].k = 2 /\ log[b].at = 2
          /\ log[b].state \notin {start[1], start[2]}

\* C7: when a wave step fails for one state of the working set, no further
\* step is called (in that wave or a later one), no successor list is ever
\* returned, and the reduction rejects with exactly that error.
WaveFailureAborts ==
    mode = "reduceEach" =>
        \A j \in DOMAIN log :
            log[j].ev = "throw" =>
                /\ j = Len(log)
                /\ cur \in {Pending, Rejected(log[j].error)}
                /\ out \in {Pending, Rejected(log[j].error)}
                /\ out = Pending =>
                      ENABLED (ApplyStepsThrow \/ ReduceEachThrow \/ ReduceEachReturn)

\* the step failed for the second state of the first of two waves, after
\* the first state had returned successors; the reduction has rejected
WaveSecondStateFailed ==
    /\ mode = "reduceEach"
    /\ Len(program) = 2
    /\ Len(log) = 4
    /\ log[2].ev = "ret" /\ log[2].value # <<>>
    /\ log[4].ev = "throw" /\ log[4].at = 2
    /\ out = Rejected(log[4].error)
    /\ Len(steps) = 1

----------------------------------------------------------------------------
(* Properties of follow and followEach, stated on the document *)

\* the sub-entities of doc that match rel and lead somewhere (a direct href,
\* or a representation with a self link), and the matching top-level links
MatchingEntities(rel, doc) ==
    {i \in DOMAIN doc.entities :
        /\ rel \in doc.entities[i].rel
        /\ \/ "href" \in DOMAIN doc.entities[i]
           \/ \E l \in DOMAIN doc.entities[i].links : "self" \in doc.entities[i].links[l].rel}
MatchingLinks(rel, doc) == {i \in DOMAIN doc.links : rel \in doc.links[i].rel}
MatchCount(rel, doc) ==
    Cardinality(MatchingEntities(rel, doc)) + Cardinality(MatchingLinks(rel, doc))

\* the n-th smallest index of S
Nth(S, n) == CHOOSE i \in S : Cardinality({j \in S : j <= i}) = n

\* where a sub-entity leads: its href, or the href of its self link
HrefOfEntity(e) ==
    IF "href" \in DOMAIN e THEN e.href
    ELSE e.links[Nth({l \in DOMAIN e.links : "self" \in e.links[l].rel}, 1)].href

\* the href of the n-th match of rel in doc: sub-entities in document order,
\* then top-level links in document order
MatchHref(rel, doc, n) ==
    IF n <= Cardinality(MatchingEntities(rel, doc))
    THEN HrefOfEntity(doc.entities[Nth(MatchingEntities(rel, doc), n)])
    ELSE doc.links[Nth(MatchingLinks(rel, doc),
                       n - Cardinality(MatchingEntities(rel, doc)))].href

\* an href resolved against a base URL
ResolvedAgainst(href, base) ==
    IF href.host = NoHost THEN [host |-> base.host, path |-> href.path] ELSE href

\* the state the n-th match of rel leads to from state `from`
MatchState(rel, doc, n, from) ==
    [cur    |-> ResolvedAgainst(MatchHref(rel, doc, n), from.cur),
     config |-> from.config,
     value  |-> getOr(cache, ResolvedAgainst(MatchHref(rel, doc, n), from.cur))]

\* a single follow step has been applied and the transport has answered
\* with the document
FollowAnswered ==
    /\ mode = "reduce"
    /\ Len(program) = 1
    /\ program[1].op = "follow"
    /\ Len(log) = 2
    /\ ~(log[2].ev = "throw" /\ log[2].error.name = "Transport")

\* a single followEach wave over one state has been applied and answered
FollowEachAnswered ==
    /\ mode = "reduceEach"
    /\ Len(program) = 1
    /\ program[1].op = "followEach"
    /\ Len(start) = 1
    /\ Len(log) = 2
    /\ ~(log[2].ev = "throw" /\ log[2].error.name = "Transport")

\* C8: on a document with N > 1 matches of the relation, follow without a
\* disambiguator fails with the ambiguous-match error carrying all N
\* candidates and returns no state; with a disambiguator it calls it with
\* the full list of the N candidates and returns exactly the candidate it
\* picks (the first of them for "first", the N-th for "last").
FollowAmbiguous ==
    (FollowAnswered /\ MatchCount(program[1].rel, server) > 1) =>
        IF program[1].which = NoWhich
        THEN /\ log[2].ev = "throw"
             /\ log[2].error.name = "Ambiguous"
             /\ log[2].error.rel = program[1].rel
             /\ Len(log[2].error.possible) = MatchCount(program[1].rel, server)
             /\ \A n \in DOMAIN log[2].error.possible :
                   log[2].error.possible[n] = MatchState(program[1].rel, server, n, start)
             /\ out \in {Pending, Rejected(log[2].error)}
        ELSE /\ log[2].ev = "ret"
             /\ "asked" \in DOMAIN log[2]
             /\ Len(log[2].asked) = MatchCount(program[1].rel, server)
             /\ \A n \in DOMAIN log[2].asked :
                   log[2].asked[n] = MatchState(program[1].rel, server, n, start)
             /\ log[2].value =
                   MatchState(program[1].rel, server,
                              IF program[1].which = "first" THEN 1
                              ELSE MatchCount(program[1].rel, server),
                              start)
             /\ out \in {Pending, Resolved(log[2].value)}

\* follow without a disambiguator has rejected on a document with three
\* matches
FollowAmbiguousRejected ==
    /\ FollowAnswered
    /\ MatchCount(program[1].rel, server) = 3
    /\ program[1].which = NoWhich
    /\ out.status = "rejected"
    /\ out.error.name = "Ambiguous"

\* no sub-entity and no link of doc carries rel
NoRelation(rel, doc) ==
    /\ \A i \in DOMAIN doc.entities : rel \notin doc.entities[i].rel
    /\ \A i \in DOMAIN doc.links : rel \notin doc.links[i].rel

\* C9: on a document in which no sub-entity and no link carries the
\* relation, follow fails with the no-match error naming the relation, with
\* or without a disambiguator and without calling it, and returns no state;
\* followEach succeeds with the empty list.
FollowNoMatch ==
    /\ (FollowAnswered /\ NoRelation(program[1].rel, server)) =>
          /\ log[2] = [ev |-> "throw", k |-> 1, at |-> 0,
                       error |-> NoMatchError(program[1].rel)]
          /\ out \in {Pending, Rejected(NoMatchError(program[1].rel))}
    /\ (FollowEachAnswered /\ NoRelation(program[1].rel, server)) =>
          /\ log[2] = [ev |-> "ret", k |-> 1, at |-> 1, value |-> <<>>]
          /\ cur \in {Pending, Resolved(<<>>)}
          /\ out \in {Pending, Resolved(<<>>)}

\* followEach has returned the empty list on a document whose sub-entities
\* and links carry other relations only
FollowEachEmpty ==
    /\ FollowEachAnswered
    /\ NoRelation(program[1].rel, server)
    /\ server.entities # <<>>
    /\ server.links # <<>>
    /\ out = Resolved(<<>>)

\* C10: on a document with exactly one match of the relation, follow (with
\* or without a disambiguator, which is not called) returns the state
\* positioned at that match's href resolved against the current state's URL,
\* an absolute URL.
FollowSingleMatch ==
    (FollowAnswered /\ MatchCount(program[1].rel, server) = 1) =>
        /\ log[2].ev = "ret"
        /\ "asked" \notin DOMAIN log[2]
        /\ log[2].value.cur = ResolvedAgainst(MatchHref(program[1].rel, server, 1), start.cur)
        /\ log[2].value.cur \in AbsUrls
        /\ out \in {Pending, Resolved(log[2].value)}

\* follow has returned the state at the one matching top-level link, whose
\* href is relative, from a document with other, non-matching elements
FollowSingleLinkDone ==
    /\ FollowAnswered
    /\ MatchCount(program[1].rel, server) = 1
    /\ MatchingLinks(program[1].rel, server) # {}
    /\ MatchHref(program[1].rel, server, 1).host = NoHost
    /\ server.entities # <<>>
    /\ start.cur.path # MatchHref(program[1].rel, server, 1).path
    /\ out.status = "resolved"
    /\ out.value.cur = [host |-> start.cur.host,
                        path |-> MatchHref(program[1].rel, server, 1).path]

----------------------------------------------------------------------------
(* Properties of findPossible *)

\* the matching sub-entities that are embedded links, and those that are
\* representations (with a self link)
MatchingEmbeddedLinks(rel, doc) ==
    {i \in MatchingEntities(rel, doc) : "href" \in DOMAIN doc.entities[i]}
MatchingRepresentations(rel, doc) ==
    {i \in MatchingEntities(rel, doc) : "href" \notin DOMAIN doc.entities[i]}

\* where the sub-entities (the links) of doc with index in S lead, in index order
EntityHrefs(doc, S) ==
    [n \in 1..Cardinality(S) |-> HrefOfEntity(doc.entities[Nth(S, n)])]
LinkHrefs(doc, S) == [n \in 1..Cardinality(S) |-> doc.links[Nth(S, n)].href]

\* the hrefs of the matches of rel: grouped by kind, and in document order
GroupedHrefs(rel, doc) ==
    EntityHrefs(doc, MatchingEmbeddedLinks(rel, doc))
        \o EntityHrefs(doc, MatchingRepresentations(rel, doc))
        \o LinkHrefs(doc, MatchingLinks(rel, doc))
DocumentHrefs(rel, doc) ==
    EntityHrefs(doc, MatchingEntities(rel, doc)) \o LinkHrefs(doc, MatchingLinks(rel, doc))

\* the states at hrefs, reached from state `from`
StatesAt(hrefs, from) ==
    [n \in DOMAIN hrefs |->
        [cur    |-> ResolvedAgainst(hrefs[n], from.cur),
         config |-> from.config,
         value  |-> getOr(cache, ResolvedAgainst(hrefs[n], from.cur))]]

\* the candidate list a single followEach returned or a single follow found
\* (handed to the disambiguator, or carried by the ambiguous-match error) is
\* `expected`
CandidatesAre(expected) ==
    /\ FollowEachAnswered => (log[2].ev = "ret" /\ log[2].value = expected)
    /\ (FollowAnswered /\ log[2].ev = "ret" /\ "asked" \in DOMAIN log[2]) =>
          log[2].asked = expected
    /\ (FollowAnswered /\ log[2].ev = "throw" /\ log[2].error.name = "Ambiguous") =>
          log[2].error.possible = expected

\* the state a single follow or followEach was applied to
StepInput == IF mode = "reduce" THEN start ELSE start[1]

\* C11 (as claimed): the candidates are all sub-entity embedded-link matches,
\* then all sub-entity representation matches, then all top-level link
\* matches, each group in document order.
CandidatesGroupedByKind ==
    (FollowEachAnswered \/ FollowAnswered) =>
        CandidatesAre(StatesAt(GroupedHrefs(program[1].rel, server), StepInput))

\* C11 (amended): the candidates are all sub-entity matches in the order of
\* the entities sequence, embedded links and representations with a self
\* link interleaved as they appear, then all top-level link matches in the
\* order of the links sequence.
CandidatesInDocumentOrder ==
    (FollowEachAnswered \/ FollowAnswered) =>
        CandidatesAre(StatesAt(DocumentHrefs(program[1].rel, server), StepInput))

\* followEach has returned three candidates from a document whose first
\* sub-entity is a matching representation, whose second is a matching
\* embedded link, and which has a matching top-level link
RepresentationBeforeLinkDone ==
    /\ FollowEachAnswered
    /\ MatchingRepresentations(program[1].rel, server) = {1}
    /\ MatchingEmbeddedLinks(program[1].rel, server) = {2}
    /\ MatchingLinks(program[1].rel, server) = {1}
    /\ out.status = "resolved"
    /\ Len(out.value) = 3
    /\ out.value[1].cur.path = "/a"

----------------------------------------------------------------------------
(* Properties of the header steps *)

\* the log positions at which a header step (header of steps.ts or of
\* steps/build.ts) was called; its outcome is the next event
HeaderCalls ==
    {j \in DOMAIN log : log[j].ev = "call" /\ log[j].step.op \in {"header", "build.header"}}

\* the header object of state's configuration (a reference), if it has one
HeaderObject(h, state) ==
    IF "headers" \in DOMAIN h.configs[state.config]
    THEN {h.configs[state.config].headers} ELSE {}

\* every header step so far returned a state whose header `key` is the
\* step's value, with a configuration object and a header object of its own,
\* shared with no configuration that existed before
HeaderStepsSet ==
    \A j \in HeaderCalls :
        /\ log[j + 1].ev = "ret"
        /\ log[j].step.key \in DOMAIN StateHeaders(heap, log[j + 1].value)
        /\ StateHeaders(heap, log[j + 1].value)[log[j].step.key] = log[j].step.value
        /\ log[j + 1].value.config # log[j].state.config
        /\ HeaderObject(heap, log[j + 1].value) # {}
        /\ HeaderObject(heap, log[j + 1].value) # HeaderObject(heap, log[j].state)
        /\ \A i \in 1..(log[j + 1].value.config - 1) :
              HeaderObject(heap, [config |-> i]) # HeaderObject(heap, log[j + 1].value)

\* a step leaves every configuration and header object that existed before
\* it as it was
ObjectsKept ==
    /\ \A i \in DOMAIN heap.configs :
          i \in DOMAIN heap'.configs /\ heap'.configs[i] = heap.configs[i]
    /\ \A i \in DOMAIN heap.headers :
          i \in DOMAIN heap'.headers /\ heap'.headers[i] = heap.headers[i]

\* C12: header(k, v2) applied after header(k, v1) yields a state whose
\* header k is v2 (every header step's value is in the state it returns, so
\* the later one wins); no step modifies the configuration object or the
\* header mapping of a state that existed before it, and the header mapping
\* of the returned state is a new object, not the input state's.
HeaderLaterWinsNoAliasing == [](HeaderStepsSet) /\ [][ObjectsKept]_vars

\* header(k, v1) then header(k, v2) have been applied (steps.ts) to a state
\* whose configuration has headers: the result has k = v2, the state
\* between has k = v1, and the initial state's headers are as they were
HeaderSetTwiceDone ==
    /\ Len(program) = 2
    /\ program[1].op = "header" /\ program[2].op = "header"
    /\ program[1].key = program[2].key
    /\ program[1].value # program[2].value
    /\ out.status = "resolved"
    /\ StateHeaders(heap, out.value)[program[2].key] = program[2].value
    /\ StateHeaders(heap, log[2].value)[program[1].key] = program[1].value
    /\ StateHeaders(heap, start) = [Accept |-> "text/html"]
    /\ program[1].key # "Accept"

\* the state a header step returned differs from its input state at most in
\* header `key` of its configuration
SameButHeader(x, y, key) ==
    /\ y.cur = x.cur
    /\ DOMAIN StateConfig(heap, y) = DOMAIN StateConfig(heap, x) \cup {"headers"}
    /\ \A f \in DOMAIN StateConfig(heap, x) \ {"headers"} :
          StateConfig(heap, y)[f] = StateConfig(heap, x)[f]
    /\ DOMAIN StateHeaders(heap, y) = DOMAIN StateHeaders(heap, x) \cup {key}
    /\ \A k \in DOMAIN StateHeaders(heap, x) \ {key} :
          StateHeaders(heap, y)[k] = StateHeaders(heap, x)[k]

\* C13: the state header(key, value) produces differs from its input state
\* only in header `key`: every other header, every other configuration
\* field, the current URL and the last response (value) are those of the
\* input state, whatever the cache holds.
HeaderChangesOnlyKey ==
    \A j \in HeaderCalls :
        /\ log[j + 1].ev = "ret"
        /\ SameButHeader(log[j].state, log[j + 1].value, log[j].step.key)
        /\ log[j + 1].value.value = log[j].state.value

\* the log positions at which accept (of steps.ts or of steps/build.ts) was
\* called
AcceptCalls ==
    {j \in DOMAIN log : log[j].ev = "call" /\ log[j].step.op \in {"accept", "build.accept"}}

\* C14: accept accumulates: accept(t) on a state whose Accept header is old
\* yields Accept = t, ", ", old, and on a state without an Accept header
\* yields Accept = t; accept("application/json") then
\* accept("application/xml") yields "application/xml, application/json".
AcceptAccumulates ==
    /\ \A j \in AcceptCalls :
          /\ log[j + 1].ev = "ret"
          /\ "Accept" \in DOMAIN StateHeaders(heap, log[j + 1].value)
          /\ StateHeaders(heap, log[j + 1].value)["Accept"] =
                IF "Accept" \in DOMAIN StateHeaders(heap, log[j].state)
                THEN log[j].step.ctype \o ", " \o StateHeaders(heap, log[j].state)["Accept"]
                ELSE log[j].step.ctype
    /\ ( /\ Len(program) = 2
         /\ \A k \in 1..2 : program[k].op \in {"accept", "build.accept"}
         /\ program[1].ctype = "application/json"
         /\ program[2].ctype = "application/xml"
         /\ StateHeaders(heap, start) = EmptyHeaders
         /\ out.status = "resolved" ) =>
            StateHeaders(heap, out.value)["Accept"] = "application/xml, application/json"

----------------------------------------------------------------------------
(* Properties of followLocation *)

\* the log positions at which a followLocation step (the step of steps.ts or
\* the one NavResponse.followLocation adds) was called and has an outcome
\* other than a failure of the transport
LocationCalls ==
    {j \in DOMAIN log :
        /\ log[j].ev = "call"
        /\ log[j].step.op \in {"followLocation", "NavResponse.followLocation"}
        /\ j + 1 \in DOMAIN log
        /\ ~(log[j + 1].ev = "throw" /\ log[j + 1].error.name = "Transport")}

\* the response headers the step called at j read
HeadersRead(j) ==
    IF log[j].step.op = "followLocation" THEN replyHeaders
    ELSE log[j].step.resp.value.headers

\* headers carry a value under name, and the first value carried under the
\* names in turn
Carries(hs, name) == \E i \in DOMAIN hs : hs[i].name = name /\ hs[i].value.path # ""
Carried(hs, name) == hs[CHOOSE i \in DOMAIN hs : hs[i].name = name].value
LocationCarried(hs) ==
    IF Carries(hs, "Location") THEN Carried(hs, "Location") ELSE Carried(hs, "location")

\* C15: followLocation produces a new state whose URL is the value of the
\* response's Location header (under the key Location or location) resolved
\* against the current state's URL; when neither key carries a value it
\* fails with the error naming the headers present, producing no state.
FollowLocationResolves ==
    \A j \in LocationCalls :
        IF Carries(HeadersRead(j), "Location") \/ Carries(HeadersRead(j), "location")
        THEN /\ log[j + 1].ev = "ret"
             /\ log[j + 1].value.cur =
                   ResolvedAgainst(LocationCarried(HeadersRead(j)), log[j].state.cur)
        ELSE /\ log[j + 1].ev = "throw"
             /\ log[j + 1].error =
                   [name |-> "MissingHeader",
                    headers |-> [i \in DOMAIN HeadersRead(j) |-> HeadersRead(j)[i].name]]

----------------------------------------------------------------------------
(* Properties of reductions mixing all steps *)

\* the states an outcome carries: the state a step returned, or the states
\* a multi-step returned
Produced(e) ==
    IF e.ev # "ret" THEN {}
    ELSE IF mode = "reduce" THEN {e.value}
    ELSE {e.value[i] : i \in DOMAIN e.value}

\* the log positions at which the NavResponse.followLocation step (alone or
\* lifted by toMulti) was called on a response carrying a relative Location
RelativeLocationCalls ==
    {j \in DOMAIN log :
        /\ log[j].ev = "call"
        /\ Inner(log[j].step).op = "NavResponse.followLocation"
        /\ Inner(log[j].step).resp.status = "resolved"
        /\ Carries(Inner(log[j].step).resp.value.headers, "Location")
              \/ Carries(Inner(log[j].step).resp.value.headers, "location")
        /\ LocationCarried(Inner(log[j].step).resp.value.headers).host = NoHost}

\* C16: in a reduction from states at absolute URLs, the URL of every state
\* a step produces (header, accept, contentType, auth, follow, followEach,
\* followLocation, NavResponse.followLocation) is absolute, and so is the
\* URL of every state the reduction returns; the step that would position a
\* state at a relative URL (NavResponse.followLocation on a relative
\* Location) fails with the relative-URL error and produces no state.
CurAlwaysAbsolute ==
    /\ \A j \in DOMAIN log : \A y \in Produced(log[j]) :
          y.cur.host \in Hosts /\ y.cur.path \in Paths
    /\ out.status = "resolved" =>
          \A y \in (IF mode = "reduce" THEN {out.value}
                    ELSE {out.value[i] : i \in DOMAIN out.value}) :
              y.cur.host \in Hosts /\ y.cur.path \in Paths
    /\ \A j \in RelativeLocationCalls :
          /\ log[j + 1].ev = "throw"
          /\ log[j + 1].error =
                [name |-> "RelativeURL",
                 url |-> LocationCarried(Inner(log[j].step).resp.value.headers)]

\* a reduction has rejected with the relative-URL error after a header step
\* and NavResponse.followLocation on a relative Location
RelativeLocationRejected ==
    /\ mode = "reduce"
    /\ Len(program) = 2
    /\ program[1].op = "header"
    /\ RelativeLocationCalls = {3}
    /\ out.status = "rejected"
    /\ out.error.name = "RelativeURL"

\* reduce read as a function: the outcome of applying the steps ss in turn
\* to state x, starting with heap h, when the transport answers every request
RECURSIVE ReduceValue(_, _, _)
Continued(done, rest, h) ==
    IF done.ok THEN ReduceValue(done.value, rest, HeapAfter(done, h)) ELSE done
ReduceValue(x, ss, h) ==
    IF ss = <<>> THEN Return(x)
    ELSE Continued(SingleDone(Head(ss), Reply, x, cache, h), Tail(ss), h)

\* the transport failed a request (the outcome of a step that fetches)
TransportFailed ==
    \E j \in DOMAIN log :
        /\ log[j].ev = "throw" /\ log[j].error.name = "Transport"
        /\ Fetches(log[j - 1].step)

\* the single steps the first k waves lift
Lifted(k) == [i \in 1..k |-> program[i].step]

\* reduceEach runs over one state with waves that are all toMulti(step)
LiftedRun ==
    /\ mode = "reduceEach"
    /\ Len(start) = 1
    /\ \A k \in DOMAIN program : program[k].op = "toMulti"

\* a promise is settled as the outcome `done` is, with `wrap` of its value
SettledAs(p, done, wrapped) ==
    /\ p.status = "resolved" => (done.ok /\ p.value = wrapped)
    /\ p.status = "rejected" => (~done.ok /\ p.error = done.error)

\* C17: toMulti(s) applied to a state invokes s once on it (one request
\* when s fetches) and yields the one-element list holding the state s
\* produces, failing exactly when s fails, with s's error; so reduceEach
\* over the single state x with waves toMulti(s1), ..., toMulti(sn) yields
\* the one-element list holding the state reduce(x, [s1, ..., sn]) yields,
\* and rejects with the error reduce rejects with.
ToMultiLiftsStep ==
    /\ (LiftedRun /\ ~TransportFailed) =>
          /\ \A j \in DOMAIN log :
                /\ log[j].ev = "ret" =>
                      /\ Len(log[j].value) = 1
                      /\ ReduceValue(start[1], Lifted(log[j].k), BaseHeap).ok
                      /\ log[j].value[1] =
                            ReduceValue(start[1], Lifted(log[j].k), BaseHeap).value
                /\ log[j].ev = "throw" =>
                      /\ ~ReduceValue(start[1], Lifted(log[j].k), BaseHeap).ok
                      /\ log[j].error =
                            ReduceValue(start[1], Lifted(log[j].k), BaseHeap).error
          /\ Len(fetched) =
                Cardinality({j \in DOMAIN log : log[j].ev = "call" /\ Fetches(log[j].step)})
          /\ SettledAs(out, ReduceValue(start[1], Lifted(Len(program)), BaseHeap),
                       <<ReduceValue(start[1], Lifted(Len(program)), BaseHeap).value>>)
    /\ (mode = "reduce" /\ ~TransportFailed) =>
          SettledAs(out, ReduceValue(start, program, BaseHeap),
                    ReduceValue(start, program, BaseHeap).value)

\* reduceEach over one state with two lifted steps, a header step and a
\* follow, has returned one state, at another URL than the initial one and
\* with the header set
LiftedTwoDone ==
    /\ LiftedRun
    /\ Len(program) = 2
    /\ program[1].step.op = "header"
    /\ program[2].step.op = "follow"
    /\ out.status = "resolved"
    /\ Len(out.value) = 1
    /\ out.value[1].cur # start[1].cur
    /\ "X-Key" \in DOMAIN StateHeaders(heap, out.value[1])

----------------------------------------------------------------------------
(* Further properties of findPossible and of reduceEach *)

\* the sub-entities of doc carrying rel: all of them, and the representations
\* among them that have no self link
RelEntities(rel, doc) == {i \in DOMAIN doc.entities : rel \in doc.entities[i].rel}
SelflessRepresentations(rel, doc) ==
    {i \in RelEntities(rel, doc) :
        /\ "href" \notin DOMAIN doc.entities[i]
        /\ \A l \in DOMAIN doc.entities[i].links : "self" \notin doc.entities[i].links[l].rel}

\* the URLs of a list of states
Curs(states) == {states[n].cur : n \in DOMAIN states}

\* C18: a matching sub-entity that is an embedded representation gives one
\* candidate, at its self link's resolved URL, when it has a self link, and
\* gives no candidate and no error when it has none; a matching sub-entity
\* with a direct href always gives a candidate; so followEach never fails on
\* a representation without self link, and follow on a document whose only
\* matches are such representations fails with the no-match error.
SelflessRepresentationSkipped ==
    /\ FollowEachAnswered =>
          /\ log[2].ev = "ret"
          /\ Len(log[2].value) =
                Cardinality(RelEntities(program[1].rel, server))
                    - Cardinality(SelflessRepresentations(program[1].rel, server))
                    + Cardinality(MatchingLinks(program[1].rel, server))
          /\ \A i \in RelEntities(program[1].rel, server)
                        \ SelflessRepresentations(program[1].rel, server) :
                ResolvedAgainst(HrefOfEntity(server.entities[i]), start[1].cur)
                    \in Curs(log[2].value)
    /\ ( /\ FollowAnswered
         /\ RelEntities(program[1].rel, server) # {}
         /\ RelEntities(program[1].rel, server)
               = SelflessRepresentations(program[1].rel, server)
         /\ MatchingLinks(program[1].rel, server) = {} ) =>
            log[2] = [ev |-> "throw", k |-> 1, at |-> 0,
                      error |-> NoMatchError(program[1].rel)]

\* follow has rejected with the no-match error on a document whose only
\* match of the relation is a representation without a self link, next to
\* a link of another relation
FollowSelflessRejected ==
    /\ FollowAnswered
    /\ SelflessRepresentations(program[1].rel, server) = {1}
    /\ RelEntities(program[1].rel, server) = {1}
    /\ MatchingLinks(program[1].rel, server) = {}
    /\ server.links # <<>>
    /\ out = Rejected(NoMatchError(program[1].rel))

\* C19: within a wave of reduceEach the step applications are sequential in
\* working-set order: a call is followed by its own outcome before any other
\* call, the call for state i+1 comes right after the successors of state i
\* were returned, at most one request is in flight at any time, and once
\* the step failed for a state it is applied to no further state.
WaveSequential ==
    mode = "reduceEach" =>
        /\ Cardinality(inflight) <= 1
        /\ \A j \in DOMAIN log :
              /\ (log[j].ev = "call" /\ j < Len(log)) =>
                    /\ log[j + 1].ev \in {"ret", "throw"}
                    /\ log[j + 1].k = log[j].k
                    /\ log[j + 1].at = log[j].at
              /\ (log[j].ev = "call" /\ log[j].at > 1) =>
                    /\ log[j - 1].ev = "ret"
                    /\ log[j - 1].k = log[j].k
                    /\ log[j - 1].at = log[j].at - 1
              /\ (log[j].ev = "call" /\ log[j].at = 1 /\ j > 1) =>
                    /\ log[j - 1].ev = "ret"
                    /\ log[j - 1].k = log[j].k - 1
              /\ log[j].ev = "throw" => j = Len(log)
        /\ inflight # {} =>
              /\ log[Len(log)].ev = "call"
              /\ \A r \in inflight : r.k = log[Len(log)].k /\ r.at = log[Len(log)].at

\* the step failed for the first of the two states of a wave, which ended
\* there: the second state was never handed to the step
WaveFirstStateFailed ==
    /\ mode = "reduceEach"
    /\ Len(start) = 2
    /\ Len(log) = 2
    /\ log[2].ev = "throw" /\ log[2].at = 1
    /\ log[2].error.name # "Transport"
    /\ ~frame.running
    /\ out.status = "rejected"

\* the steps that follow a relation or a Location header
Navigates(step) ==
    Inner(step).op \in {"follow", "followEach", "followLocation", "NavResponse.followLocation"}

\* the header mapping after a step of the given kind, and after steps ss
HeadersSet(hs, step) ==
    CASE step.op = "header" -> WithHeader(hs, step.key, step.value)
      [] step.op = "accept" -> WithHeader(hs, "Accept", AcceptValue(step.ctype, hs))
      [] step.op = "contentType" -> WithHeader(hs, "Content-Type", step.ctype)
      [] step.op = "auth" ->
             WithHeader(hs, "Authorization", step.scheme \o " " \o step.token)
      [] OTHER -> hs
RECURSIVE HeadersAfter(_, _)
HeadersAfter(hs, ss) ==
    IF ss = <<>> THEN hs ELSE HeadersAfter(HeadersSet(hs, Inner(Head(ss))), Tail(ss))

\* C20: navigation steps never change the request configuration: every state
\* follow, followEach or followLocation produces has the configuration
\* object of the step's input state; so every state of a reduction, in
\* every branch of reduceEach, carries the headers that the header, accept,
\* contentType and auth steps before it have set, each key with the value of
\* the last step that set it.
ConfigurationKept ==
    /\ \A j \in DOMAIN log :
          (log[j].ev = "call" /\ Navigates(log[j].step) /\ j < Len(log)) =>
              \A y \in Produced(log[j + 1]) :
                  /\ y.config = log[j].state.config
                  /\ StateHeaders(heap, y) = StateHeaders(heap, log[j].state)
    /\ \A j \in DOMAIN log :
          /\ log[j].ev = "call" =>
                StateHeaders(heap, log[j].state)
                    = HeadersAfter(HeadersOf(heap, heap.configs[1]),
                                   SubSeq(program, 1, log[j].k - 1))
          /\ \A y \in Produced(log[j]) :
                StateHeaders(heap, y)
                    = HeadersAfter(HeadersOf(heap, heap.configs[1]),
                                   SubSeq(program, 1, log[j].k))

\* reduceEach has returned the two states followEach found after a lifted
\* header step, both carrying the header
HeaderFannedOut ==
    /\ mode = "reduceEach"
    /\ Len(program) = 2
    /\ program[1].op = "toMulti" /\ program[1].step.op = "header"
    /\ program[2].op = "followEach"
    /\ out.status = "resolved"
    /\ Len(out.value) = 2
    /\ \A n \in 1..2 : StateHeaders(heap, out.value[n]) = [k \in {"X-Key"} |-> "v1"]

====
